---- MODULE Spec2Model ----
(***************************************************************************)
(* The auto-save scheduling and retry state machine of the useFormAutoSave *)
(* hook (use-form-auto-save).  One hook instance is one save session: its  *)
(* React state, its two effects (debounce and retry), the timers they arm, *)
(* the remote saves in flight and the two browser storages.                *)
(*                                                                         *)
(* A state update together with the re-render it causes and the effects    *)
(* that re-run after that render is one step (React commits before the     *)
(* next timer task is taken).  Time is counted in milliseconds and         *)
(* advances in steps of TickMs; a timer fires when its remaining time is 0 *)
(* and time does not pass a timer that is due.                             *)
(***************************************************************************)
EXTENDS Integers, Sequences, FiniteSets, TLC

VARIABLES
    cfg,               \* the options record the hook was called with
    env,               \* how the backend behaves: "ok", "fail" or "any"
    universe,          \* the snapshots the host can deliver
    lifecycle,         \* "rendered" (effects not yet run), "mounted", "unmounted"
    watchedFormState,  \* the current snapshot
    lastSavedData,     \* useState<object | null>(null)
    isSaving,          \* useState(false)
    isSaveSuccessful,  \* useState(false)
    retryCount,        \* useState(0)
    isAutoSavePaused,  \* useState(false)
    shouldRetry,       \* useState(false)
    hasMounted,        \* useRef(false)
    handlers,          \* armed debounce timers (setTimeout of the debounce effect)
    retryTimers,       \* armed retry timers (setTimeout of the retry effect)
    pending,           \* remote saves begun and not completed, oldest first
    localStorage,      \* the entry under formKey, or Null
    sessionStorage,    \* the entry under formKey, or Null
    hist               \* observations: attempts begun, onError calls, clocks

vars == <<cfg, env, universe, lifecycle, watchedFormState, lastSavedData,
          isSaving, isSaveSuccessful, retryCount, isAutoSavePaused,
          shouldRetry, hasMounted, handlers, retryTimers, pending,
          localStorage, sessionStorage, hist>>

hookState == <<watchedFormState, lastSavedData, isSaving, isSaveSuccessful,
               retryCount, isAutoSavePaused, shouldRetry, hasMounted,
               handlers, retryTimers>>

storages == <<localStorage, sessionStorage>>

fixed == <<cfg, env, universe>>

----------------------------------------------------------------------------
(* Bounds of the model. *)

\* The largest maxRetries a session is configured with.
MaxRetriesBound == 3

\* Save attempts and onError calls are counted up to this number.
MaxCount == 5

\* The snapshot changes of one sequence, and the save attempts since its
\* last change, are counted up to this number.
MaxSeq == 3

\* The largest maxRetries of the sessions explored with every operation.
MaxRetriesWide == 1

\* Remote saves that may be in flight together.
MaxPending == 2

\* The largest maxRetries of the sessions explored for the retry ceiling.
MaxRetriesCeiling == 2

(* Program constants. *)

\* Math.pow(2, retryCount) * 1000
BaseDelayMs == 1000

\* debounceTime = 1000
DefaultDebounceMs == 1000

\* The step of the clock: one backoff unit.
TickMs == BaseDelayMs

----------------------------------------------------------------------------
(* Snapshots: an object is the sequence of its <<key, value>> pairs in     *)
(* insertion order; Null, which is no such sequence, is null / undefined.  *)

Null == << <<"null">> >>

Empty == << >>

SnapA == << <<"a", "1">> >>

SnapB == << <<"a", "2">> >>

SnapAB == << <<"a", "1">>, <<"b", "1">> >>

SnapBA == << <<"b", "1">>, <<"a", "1">> >>

SnapAU == << <<"a", "1">>, <<"b", "undefined">> >>

\* A string under formKey that is not JSON (written by other code of the page).
Corrupt == << <<"corrupt">> >>

\* The outcome of a call that threw instead of returning.
Threw == << <<"threw">> >>

\* JSON.stringify of an object: the pairs in insertion order, a pair whose
\* value is undefined left out.  The string is kept as that list of pairs.
Stringify(s) == SelectSeq(s, LAMBDA p : p[2] # "undefined")

\* JSON.parse: the object of a string JSON.stringify produced; a SyntaxError
\* for a string that is not JSON.
Parse(str) == IF str = Corrupt THEN Threw ELSE str

\* storage.getItem(formKey); denied says the browser refuses access to the
\* storage (reading it throws a SecurityError).
GetItem(entry, denied) == IF denied THEN Threw ELSE entry

\* Object.keys(s).length
KeyCount(s) == Len(s)

\* Structural (deep) equality of two snapshots: the same keys with the same
\* values, whatever the insertion order.
DeepEqual(s, t) ==
    IF s = Null \/ t = Null THEN s = t
    ELSE {s[i] : i \in DOMAIN s} = {t[i] : i \in DOMAIN t}

\* lastSavedData && JSON.stringify(lastSavedData) === JSON.stringify(state)
Unchanged(lsd, wfs) == lsd # Null /\ Stringify(lsd) = Stringify(wfs)

\* Math.pow(2, retryCount) * 1000
RECURSIVE Pow2(_)
Pow2(n) == IF n = 0 THEN 1 ELSE 2 * Pow2(n - 1)

\* Fault: the delay does not grow with retryCount.
RetryDelayLinear(rc) == BaseDelayMs

RetryDelay(rc) == Pow2(rc) * BaseDelayMs

----------------------------------------------------------------------------
(* The options a session can be configured with. *)

StorageTypes == {"localStorage", "sessionStorage", "api"}

DebounceTimes == {0, DefaultDebounceMs, 2 * DefaultDebounceMs}

Configs ==
    [formKey         : {"form"},
     storageType     : StorageTypes,
     saveFunction    : BOOLEAN,      \* whether a saveFunction is configured
     onError         : BOOLEAN,      \* whether an onError callback is configured
     maxRetries      : 0 .. MaxRetriesBound,
     debounceTime    : DebounceTimes,
     skipInitialSave : BOOLEAN]

----------------------------------------------------------------------------
(* Timers. *)

\* A debounce timer: the closure of the effect run that armed it (the
\* snapshot and the retryCount of that render), the time left, and whether
\* it is the handler the effect's current cleanup function refers to.
Handler(data, rc, ms) == [data |-> data, rc |-> rc, rem |-> ms, own |-> TRUE]

\* Fault: the retry effect returns no cleanup, so nothing refers to its timer.
UntrackedRetryTimer(ms) == [rem |-> ms, own |-> FALSE]

RetryTimer(ms) == [rem |-> ms, own |-> TRUE]

\* Fault: the cleanup cancels nothing.
ClearTimeoutKeepsAll(timers) == timers

\* return () => clearTimeout(handler): cancels the timer the last effect run
\* armed, when it is still pending.
ClearTimeout(timers) == {t \in timers : ~t.own}

\* Timers the current cleanup function no longer refers to.
Disown(timers) == {[t EXCEPT !.own = FALSE] : t \in timers}

----------------------------------------------------------------------------
(* The debounce effect's Change Gate.  The result says whether the run     *)
(* arms a timer and what hasMounted.current is afterwards.                 *)

\* Fault: the gate without the test for a missing snapshot.
ChangeGateWithoutNullTest(wfs, lsd, paused, mounted) ==
    IF cfg.formKey = "" \/ paused
        THEN [arm |-> FALSE, hasMounted |-> mounted]
    ELSE IF KeyCount(wfs) = 0
        THEN [arm |-> FALSE, hasMounted |-> mounted]
    ELSE IF ~mounted /\ cfg.skipInitialSave
        THEN [arm |-> FALSE, hasMounted |-> TRUE]
    ELSE IF Unchanged(lsd, wfs)
        THEN [arm |-> FALSE, hasMounted |-> TRUE]
    ELSE [arm |-> TRUE, hasMounted |-> TRUE]

\* Fault: the gate without the test for a paused session.
ChangeGateIgnoresPause(wfs, lsd, paused, mounted) ==
    IF wfs = Null \/ cfg.formKey = ""
        THEN [arm |-> FALSE, hasMounted |-> mounted]
    ELSE IF KeyCount(wfs) = 0
        THEN [arm |-> FALSE, hasMounted |-> mounted]
    ELSE IF ~mounted /\ cfg.skipInitialSave
        THEN [arm |-> FALSE, hasMounted |-> TRUE]
    ELSE IF Unchanged(lsd, wfs)
        THEN [arm |-> FALSE, hasMounted |-> TRUE]
    ELSE [arm |-> TRUE, hasMounted |-> TRUE]

\* Fault: the gate without the test for a snapshot with no fields.
ChangeGateArmsEmpty(wfs, lsd, paused, mounted) ==
    IF wfs = Null \/ cfg.formKey = "" \/ paused
        THEN [arm |-> FALSE, hasMounted |-> mounted]
    ELSE IF ~mounted /\ cfg.skipInitialSave
        THEN [arm |-> FALSE, hasMounted |-> TRUE]
    ELSE IF Unchanged(lsd, wfs)
        THEN [arm |-> FALSE, hasMounted |-> TRUE]
    ELSE [arm |-> TRUE, hasMounted |-> TRUE]

ChangeGate(wfs, lsd, paused, mounted) ==
    IF wfs = Null \/ cfg.formKey = "" \/ paused
        THEN [arm |-> FALSE, hasMounted |-> mounted]
    ELSE IF KeyCount(wfs) = 0
        THEN [arm |-> FALSE, hasMounted |-> mounted]
    ELSE IF ~mounted /\ cfg.skipInitialSave
        THEN [arm |-> FALSE, hasMounted |-> TRUE]
    ELSE IF Unchanged(lsd, wfs)
        THEN [arm |-> FALSE, hasMounted |-> TRUE]
    ELSE [arm |-> TRUE, hasMounted |-> TRUE]

\* Fault: the debounce effect returns no cleanup.
DebounceEffectKeepsTimer(timers, wfs, lsd, rc, paused) ==
    LET g == ChangeGate(wfs, lsd, paused, hasMounted)
    IN  /\ hasMounted' = g.hasMounted
        /\ handlers' = timers \cup
               (IF g.arm THEN {Handler(wfs, rc, cfg.debounceTime)} ELSE {})

\* One run of the debounce effect after a render with the given values:
\* the cleanup of the previous run, then the body.
DebounceEffect(timers, wfs, lsd, rc, paused) ==
    LET g == ChangeGate(wfs, lsd, paused, hasMounted)
    IN  /\ hasMounted' = g.hasMounted
        /\ handlers' = Disown(ClearTimeout(timers)) \cup
               (IF g.arm THEN {Handler(wfs, rc, cfg.debounceTime)} ELSE {})

\* Fault: the retry effect without the test retryCount >= maxRetries.
RetryEffectWithoutCeiling(timers, sr, rc) ==
    retryTimers' = Disown(ClearTimeout(timers)) \cup
        (IF sr THEN {RetryTimer(RetryDelay(rc))} ELSE {})

\* One run of the retry effect: the cleanup of the previous run, then the
\* body, which arms the backoff timer.
RetryEffect(timers, sr, rc) ==
    retryTimers' = Disown(ClearTimeout(timers)) \cup
        (IF sr /\ rc < cfg.maxRetries THEN {RetryTimer(RetryDelay(rc))} ELSE {})

\* Fault: lastSavedData is missing from the debounce effect's dependencies.
DebounceDepsWithoutLastSaved(newData, lsd, rc, paused) ==
    \/ newData
    \/ rc # retryCount
    \/ paused # isAutoSavePaused

\* Fault: watchedFormState is missing from the debounce effect's dependencies.
DebounceDepsWithoutSnapshot(newData, lsd, rc, paused) ==
    \/ rc # retryCount
    \/ paused # isAutoSavePaused
    \/ lsd # lastSavedData

\* Fault: isAutoSavePaused is missing from the debounce effect's dependencies.
DebounceDepsWithoutPaused(newData, lsd, rc, paused) ==
    \/ newData
    \/ rc # retryCount
    \/ lsd # lastSavedData

\* Whether a render changes a dependency of the debounce effect:
\* [watchedFormState, ..., retryCount, isAutoSavePaused, ..., lastSavedData]
\* (the options do not change during a session).
DebounceDepsChanged(newData, lsd, rc, paused) ==
    \/ newData
    \/ rc # retryCount
    \/ paused # isAutoSavePaused
    \/ lsd # lastSavedData

\* Whether a render changes a dependency of the retry effect:
\* [shouldRetry, retryCount, maxRetries, logDebug]
RetryDepsChanged(sr, rc) == sr # shouldRetry \/ rc # retryCount

\* A render with new values of the state, followed by the effects whose
\* dependencies changed.  hs and rs are the timers still armed when the
\* render happens; newData says the host passed a new snapshot object.
Commit(wfs, lsd, saving, ok, rc, paused, sr, hs, rs, newData) ==
    /\ watchedFormState' = wfs
    /\ lastSavedData' = lsd
    /\ isSaving' = saving
    /\ isSaveSuccessful' = ok
    /\ retryCount' = rc
    /\ isAutoSavePaused' = paused
    /\ shouldRetry' = sr
    /\ IF DebounceDepsChanged(newData, lsd, rc, paused)
           THEN DebounceEffect(hs, wfs, lsd, rc, paused)
           ELSE handlers' = hs /\ hasMounted' = hasMounted
    /\ IF RetryDepsChanged(sr, rc)
           THEN RetryEffect(rs, sr, rc)
           ELSE retryTimers' = rs


----------------------------------------------------------------------------
(* Observations kept beside the program's state.  A specification chooses  *)
(* what it watches; what is not watched keeps its initial value.           *)

NoTime == 0 - 1

Count(n) == IF n < MaxCount THEN n + 1 ELSE MaxCount

Earlier(a, b) == IF a < b THEN a ELSE b

\* The longest time a clock is read at.
ClockCap == RetryDelay(MaxRetriesBound) + 2 * DefaultDebounceMs

NoHist(watch) ==
    [watch       |-> watch,
     beat        |-> FALSE,   \* flips whenever a save attempt begins
     torn        |-> {},      \* the timer kinds the unmount cancelled
     \* "count"
     attempts    |-> 0,       \* save attempts begun
     errors      |-> 0,       \* onError calls
     writes      |-> 0,       \* storage.setItem calls that returned
     \* "burst": the current sequence of snapshot changes, each delivered
     \* while the debounce timer of the one before was still armed
     seqLen      |-> 0,       \* its length, counted up to MaxSeq
     lastArg     |-> Null,    \* the snapshot of the last attempt begun
     quiet       |-> FALSE,   \* nothing was outstanding when it started
     passed      |-> FALSE,   \* its last change passed the Change Gate
     burst       |-> 0,       \* save attempts begun since its last change
     burstFails  |-> 0,       \* save attempts failed since its last change
     sinceChange |-> 0,       \* ms since its last change, up to debounceTime
     \* "backoff"
     sinceFail   |-> NoTime,  \* ms since the last failed attempt completed
     failRc      |-> NoTime,  \* the retryCount that attempt ran with
     gap         |-> NoTime,  \* sinceFail when the last attempt began
     gapRc       |-> NoTime,  \* failRc when the last attempt began
     \* "resume"
     afterResume |-> FALSE,   \* resumed from pause, no snapshot change since
     resumed     |-> "no",    \* "reset": resumed, nothing has failed since
     resumeHad   |-> FALSE,   \* that resume had something to reset
     \* "outcome"
     delivered   |-> FALSE,   \* flips whenever a snapshot is delivered
     completed   |-> FALSE,   \* flips whenever a save attempt completes
     outcome     |-> "none",  \* "ok" or "fail": how the last one completed
     subject     |-> Null,    \* the snapshot of that attempt
     subjectRc   |-> 0,       \* the retryCount that attempt ran with
     reported    |-> 0,       \* the onError calls that attempt made
     lastError   |-> NoTime,  \* the error passed to the last onError call
     okSince     |-> FALSE,   \* an attempt succeeded since the last one began
     fresh       |-> FALSE,   \* no attempt completed since the last one began
     begun       |-> Null,    \* the snapshot the last attempt began with
     \* "restore"
     asked       |-> FALSE,   \* flips whenever restoreFormData() is called
     denied      |-> FALSE,   \* storage access was refused in the last call
     restored    |-> Null,    \* what the last call returned, or Threw
     saved       |-> Null,    \* the snapshot of the last save that succeeded
     \* "first"
     observed    |-> 0,       \* snapshots delivered so far: 0, 1, or 2 for more
     began       |-> FALSE,   \* a save attempt has begun
     \* "override"
     overridden  |-> FALSE,   \* flips whenever setLastSavedData() is called
     arg         |-> Null,    \* the snapshot passed to the last call
     settled     |-> FALSE,   \* it was structurally equal to the current
                              \* snapshot, and none was delivered since
     \* "gate"
     dropped     |-> FALSE,   \* the last snapshot delivered was rejected
                              \* while a debounce timer was armed
     \* "retry"
     fired       |-> FALSE,   \* flips whenever a retry timer fires
     \* "owed"
     owed        |-> Null,    \* the current snapshot, once a save attempt for
                              \* it has failed and none has succeeded since
     \* "suppress"
     suppressed  |-> FALSE,   \* the last snapshot delivered was skipped as
                              \* the initial one (skipInitialSave)
     \* "order"
     stale       |-> FALSE]   \* since the last snapshot was delivered, a save
                              \* of an older one succeeded after a save of it

Watches(h, what) == what \in h.watch

\* The error a failing save raises: errors are told apart by the retryCount
\* of the attempt that raised them.
ErrorOf(rc) == rc

HBegin(h, data) ==
    LET a == [h EXCEPT !.beat = ~@]
        b == IF Watches(h, "count") THEN [a EXCEPT !.attempts = Count(@)] ELSE a
        c == IF Watches(h, "burst")
                 THEN [b EXCEPT !.burst = Earlier(@ + 1, MaxSeq),
                               !.lastArg = data]
                 ELSE b
        d == IF Watches(h, "outcome")
                 THEN [c EXCEPT !.okSince = FALSE, !.fresh = TRUE,
                               !.begun = data]
                 ELSE c
        e == IF Watches(h, "first") THEN [d EXCEPT !.began = TRUE] ELSE d
    IN  IF Watches(h, "backoff")
            THEN [e EXCEPT !.gap = h.sinceFail, !.gapRc = h.failRc,
                           !.sinceFail = NoTime, !.failRc = NoTime]
            ELSE e

\* Fault: onError is called only by the failure that pauses the session.
HFailReportsLast(h, data, rc) ==
    IF ~Watches(h, "outcome") THEN h
    ELSE LET a == [h EXCEPT !.completed = ~@, !.outcome = "fail",
                            !.subject = data, !.subjectRc = rc,
                            !.reported = 0, !.fresh = FALSE]
         IN  IF cfg.onError /\ rc >= cfg.maxRetries
                 THEN [a EXCEPT !.reported = 1, !.lastError = ErrorOf(rc)]
                 ELSE a

\* The save attempt for data that ran with retryCount rc failed: the catch
\* block is entered, if (onError) onError(error)
HFail(h, data, rc) ==
    LET a == IF Watches(h, "count") /\ cfg.onError
                 THEN [h EXCEPT !.errors = Count(@)] ELSE h
        b == IF Watches(h, "burst")
                 THEN [a EXCEPT !.burstFails = Earlier(@ + 1, MaxSeq)] ELSE a
        c == IF Watches(h, "backoff")
                 THEN [b EXCEPT !.sinceFail = 0, !.failRc = rc] ELSE b
        d == IF Watches(h, "resume") THEN [c EXCEPT !.resumed = "no"] ELSE c
        e == IF Watches(h, "outcome")
                 THEN [d EXCEPT !.completed = ~@, !.outcome = "fail",
                                !.subject = data, !.subjectRc = rc,
                                !.reported = 0, !.fresh = FALSE]
                 ELSE d
        f == IF Watches(h, "outcome") /\ cfg.onError
                 THEN [e EXCEPT !.reported = @ + 1, !.lastError = ErrorOf(rc)]
                 ELSE e
    IN  IF Watches(h, "owed") /\ data = watchedFormState
            THEN [f EXCEPT !.owed = data]
            ELSE f

\* The save attempt for data succeeded.
HSucceed(h, data) ==
    LET a == IF Watches(h, "outcome")
                 THEN [h EXCEPT !.completed = ~@, !.outcome = "ok",
                                !.subject = data, !.subjectRc = 0,
                                !.reported = 0, !.okSince = TRUE,
                                !.fresh = FALSE]
                 ELSE h
        b == IF Watches(h, "restore") THEN [a EXCEPT !.saved = data] ELSE a
        c == IF Watches(h, "owed") /\ data = h.owed
                 THEN [b EXCEPT !.owed = Null]
                 ELSE b
    IN  IF /\ Watches(h, "order")
           /\ data # watchedFormState
           /\ lastSavedData = watchedFormState
            THEN [c EXCEPT !.stale = TRUE]
            ELSE c

HWrote(h) == IF Watches(h, "count") THEN [h EXCEPT !.writes = Count(@)] ELSE h

\* A snapshot is delivered (at the mount, or by a later render); arm says
\* whether it passed the Change Gate.
HChange(h, arm) ==
    LET continues == handlers # {} /\ h.seqLen > 0
        a == IF Watches(h, "burst")
                 THEN [h EXCEPT !.seqLen = IF continues THEN Earlier(@ + 1, MaxSeq)
                                           ELSE 1,
                                !.quiet = IF continues THEN @
                                          ELSE /\ pending = << >>
                                               /\ retryTimers = {}
                                               /\ ~shouldRetry,
                                !.passed = arm,
                                !.burst = 0,
                                !.burstFails = 0,
                                !.sinceChange = 0]
                 ELSE h
        b == IF Watches(h, "resume") THEN [a EXCEPT !.afterResume = FALSE] ELSE a
        c == IF Watches(h, "outcome") \/ Watches(h, "first")
                 THEN [b EXCEPT !.delivered = ~@]
                 ELSE b
        e == IF Watches(h, "first")
                 THEN [c EXCEPT !.observed = Earlier(@ + 1, 2)]
                 ELSE c
        f == IF Watches(h, "override") THEN [e EXCEPT !.settled = FALSE] ELSE e
        g == IF Watches(h, "gate")
                 THEN [f EXCEPT !.delivered = ~h.delivered,
                                !.dropped = handlers # {} /\ ~arm]
                 ELSE f
        i == IF Watches(h, "owed") THEN [g EXCEPT !.owed = Null] ELSE g
        j == IF Watches(h, "suppress")
                 THEN [i EXCEPT !.suppressed = /\ cfg.skipInitialSave
                                               /\ ~hasMounted
                                               /\ hasMounted']
                 ELSE i
    IN  IF Watches(h, "order") THEN [j EXCEPT !.stale = FALSE] ELSE j

HRetryFires(h) ==
    LET a == IF Watches(h, "resume") THEN [h EXCEPT !.resumed = "no"] ELSE h
    IN  IF Watches(h, "retry") THEN [a EXCEPT !.fired = ~@] ELSE a

HResume(h) ==
    IF Watches(h, "resume")
        THEN [h EXCEPT !.afterResume = @ \/ isAutoSavePaused,
                       !.resumed = "reset",
                       !.resumeHad = \/ isAutoSavePaused
                                     \/ retryCount > 0
                                     \/ retryTimers # {}]
        ELSE h

HOverride(h, d) ==
    IF Watches(h, "override")
        THEN [h EXCEPT !.overridden = ~@,
                       !.arg = d,
                       !.settled = DeepEqual(d, watchedFormState)]
        ELSE h

HRestore(h, denied, result) ==
    IF Watches(h, "restore")
        THEN [h EXCEPT !.asked = ~@, !.denied = denied, !.restored = result]
        ELSE h

HUnmount(h) ==
    [h EXCEPT !.torn = (IF handlers # {} THEN {"debounce"} ELSE {}) \cup
                       (IF retryTimers # {} THEN {"retry"} ELSE {})]

HTick(h) ==
    LET a == IF Watches(h, "burst")
                 THEN [h EXCEPT !.sinceChange =
                                    Earlier(@ + TickMs, cfg.debounceTime)]
                 ELSE h
    IN  IF Watches(h, "backoff") /\ h.sinceFail # NoTime
            THEN [a EXCEPT !.sinceFail = Earlier(@ + TickMs, ClockCap)]
            ELSE a

----------------------------------------------------------------------------
(* State updates.  A setter called after the unmount changes nothing. *)

SetState(lsd, saving, ok, rc, paused, sr, hs, rs) ==
    IF lifecycle = "mounted"
        THEN Commit(watchedFormState, lsd, saving, ok, rc, paused, sr, hs, rs,
                    FALSE)
        ELSE /\ handlers' = hs
             /\ retryTimers' = rs
             /\ UNCHANGED <<watchedFormState, lastSavedData, isSaving,
                            isSaveSuccessful, retryCount, isAutoSavePaused,
                            shouldRetry, hasMounted>>

\* Fault: the success branch without setRetryCount(0).
SaveSucceededKeepsCount(data, hs) ==
    SetState(data, FALSE, TRUE, retryCount, isAutoSavePaused, FALSE, hs,
             retryTimers)

\* The updates of a save that succeeded, with the finally block.
SaveSucceeded(data, hs) ==
    SetState(data, FALSE, TRUE, 0, isAutoSavePaused, FALSE, hs, retryTimers)

\* Fault: the catch block records the current snapshot as saved.
SaveFailedRecordsSnapshot(rc, ok, hs) ==
    IF rc < cfg.maxRetries
        THEN SetState(watchedFormState, FALSE, ok, retryCount,
                      isAutoSavePaused, TRUE, hs, retryTimers)
        ELSE SetState(watchedFormState, FALSE, ok, retryCount, TRUE,
                      shouldRetry, hs, retryTimers)

\* Fault: the ceiling test is retryCount <= maxRetries.
SaveFailedOffByOne(rc, ok, hs) ==
    IF rc <= cfg.maxRetries
        THEN SetState(lastSavedData, FALSE, ok, retryCount, isAutoSavePaused,
                      TRUE, hs, retryTimers)
        ELSE SetState(lastSavedData, FALSE, ok, retryCount, TRUE,
                      shouldRetry, hs, retryTimers)

\* The updates of a save that failed, with the finally block; rc is the
\* retryCount of the render whose effect armed the timer.
SaveFailed(rc, ok, hs) ==
    IF rc < cfg.maxRetries
        THEN SetState(lastSavedData, FALSE, ok, retryCount, isAutoSavePaused,
                      TRUE, hs, retryTimers)
        ELSE SetState(lastSavedData, FALSE, ok, retryCount, TRUE,
                      shouldRetry, hs, retryTimers)

\* Whether the backend chosen for a save is the remote save function.
Remote == cfg.storageType = "api" /\ cfg.saveFunction

----------------------------------------------------------------------------
(* The operations. *)

\* The first commit: both effects run for the first time.
Mount ==
    /\ lifecycle = "rendered"
    /\ lifecycle' = "mounted"
    /\ DebounceEffect({}, watchedFormState, lastSavedData, retryCount,
                      isAutoSavePaused)
    /\ RetryEffect({}, shouldRetry, retryCount)
    /\ hist' = HChange(hist, ChangeGate(watchedFormState, lastSavedData,
                                        isAutoSavePaused, hasMounted).arm)
    /\ UNCHANGED <<fixed, watchedFormState, lastSavedData, isSaving,
                   isSaveSuccessful, retryCount, isAutoSavePaused,
                   shouldRetry, pending, storages>>

\* The host renders the hook with a new snapshot object.
SnapshotChange(d) ==
    /\ lifecycle = "mounted"
    /\ Commit(d, lastSavedData, isSaving, isSaveSuccessful, retryCount,
              isAutoSavePaused, shouldRetry, handlers, retryTimers, TRUE)
    /\ hist' = HChange(hist, ChangeGate(d, lastSavedData, isAutoSavePaused,
                                        hasMounted).arm)
    /\ UNCHANGED <<fixed, lifecycle, pending, storages>>

\* Fault: the handler without setIsSaveSuccessful(false) on entry.
BeginRemoteSaveKeepsSuccess(t) ==
    /\ t \in handlers /\ t.rem = 0
    /\ Remote
    /\ Len(pending) < MaxPending
    /\ pending' = Append(pending, [data |-> t.data, rc |-> t.rc])
    /\ SetState(lastSavedData, TRUE, isSaveSuccessful, retryCount,
                isAutoSavePaused, shouldRetry, handlers \ {t}, retryTimers)
    /\ hist' = HBegin(hist, t.data)
    /\ UNCHANGED <<fixed, lifecycle, storages>>

\* The debounce timer fires and the remote save function is called; the
\* handler suspends at the await.
BeginRemoteSave(t) ==
    /\ t \in handlers /\ t.rem = 0
    /\ Remote
    /\ Len(pending) < MaxPending
    /\ pending' = Append(pending, [data |-> t.data, rc |-> t.rc])
    /\ SetState(lastSavedData, TRUE, FALSE, retryCount, isAutoSavePaused,
                shouldRetry, handlers \ {t}, retryTimers)
    /\ hist' = HBegin(hist, t.data)
    /\ UNCHANGED <<fixed, lifecycle, storages>>

\* The debounce timer fires and storage.setItem returns.
StorageSaveOk(t) ==
    /\ t \in handlers /\ t.rem = 0
    /\ ~Remote
    /\ env \in {"ok", "any"}
    /\ IF cfg.storageType = "localStorage"
           THEN /\ localStorage' = Stringify(t.data)
                /\ UNCHANGED sessionStorage
           ELSE /\ sessionStorage' = Stringify(t.data)
                /\ UNCHANGED localStorage
    /\ SaveSucceeded(t.data, handlers \ {t})
    /\ hist' = HSucceed(HWrote(HBegin(hist, t.data)), t.data)
    /\ UNCHANGED <<fixed, lifecycle, pending>>

\* Fault: a storage write that throws pauses the session at once.
StorageSaveThrowsPauses(t) ==
    /\ t \in handlers /\ t.rem = 0
    /\ ~Remote
    /\ env \in {"fail", "any"}
    /\ SetState(lastSavedData, FALSE, FALSE, retryCount, TRUE, shouldRetry,
                handlers \ {t}, retryTimers)
    /\ hist' = HFail(HBegin(hist, t.data), t.data, t.rc)
    /\ UNCHANGED <<fixed, lifecycle, pending, storages>>

\* The debounce timer fires and storage.setItem throws.
StorageSaveThrows(t) ==
    /\ t \in handlers /\ t.rem = 0
    /\ ~Remote
    /\ env \in {"fail", "any"}
    /\ SaveFailed(t.rc, FALSE, handlers \ {t})
    /\ hist' = HFail(HBegin(hist, t.data), t.data, t.rc)
    /\ UNCHANGED <<fixed, lifecycle, pending, storages>>

Without(seq, i) ==
    [j \in 1 .. Len(seq) - 1 |-> IF j < i THEN seq[j] ELSE seq[j + 1]]

\* The promise of the i-th remote save in flight resolves.
RemoteSaveResolves(i) ==
    /\ i \in DOMAIN pending
    /\ env \in {"ok", "any"}
    /\ pending' = Without(pending, i)
    /\ SaveSucceeded(pending[i].data, handlers)
    /\ hist' = HSucceed(hist, pending[i].data)
    /\ UNCHANGED <<fixed, lifecycle, storages>>

\* The promise of the i-th remote save in flight rejects.
RemoteSaveRejects(i) ==
    /\ i \in DOMAIN pending
    /\ env \in {"fail", "any"}
    /\ pending' = Without(pending, i)
    /\ SaveFailed(pending[i].rc, isSaveSuccessful, handlers)
    /\ hist' = HFail(hist, pending[i].data, pending[i].rc)
    /\ UNCHANGED <<fixed, lifecycle, storages>>

\* The backoff timer fires: setShouldRetry(false); setRetryCount(prev + 1).
RetryTimerFires(t) ==
    /\ t \in retryTimers /\ t.rem = 0
    /\ SetState(lastSavedData, isSaving, isSaveSuccessful, retryCount + 1,
                isAutoSavePaused, FALSE, handlers, retryTimers \ {t})
    /\ hist' = HRetryFires(hist)
    /\ UNCHANGED <<fixed, lifecycle, pending, storages>>

\* Fault: resumeAutoSave() without setShouldRetry(false).
resumeAutoSaveKeepsRetry ==
    /\ lifecycle = "mounted"
    /\ SetState(lastSavedData, isSaving, isSaveSuccessful, 0, FALSE,
                shouldRetry, handlers, retryTimers)
    /\ hist' = HResume(hist)
    /\ UNCHANGED <<fixed, lifecycle, pending, storages>>

\* resumeAutoSave()
resumeAutoSave ==
    /\ lifecycle = "mounted"
    /\ SetState(lastSavedData, isSaving, isSaveSuccessful, 0, FALSE, FALSE,
                handlers, retryTimers)
    /\ hist' = HResume(hist)
    /\ UNCHANGED <<fixed, lifecycle, pending, storages>>

\* setLastSavedData(d), the state setter the hook returns.
setLastSavedData(d) ==
    /\ lifecycle = "mounted"
    /\ SetState(d, isSaving, isSaveSuccessful, retryCount, isAutoSavePaused,
                shouldRetry, handlers, retryTimers)
    /\ hist' = HOverride(hist, d)
    /\ UNCHANGED <<fixed, lifecycle, pending, storages>>

\* Fault: the debounce effect returns no cleanup.
UnmountKeepsHandler ==
    /\ lifecycle = "mounted"
    /\ lifecycle' = "unmounted"
    /\ handlers' = handlers
    /\ retryTimers' = ClearTimeout(retryTimers)
    /\ hist' = HUnmount(hist)
    /\ UNCHANGED <<fixed, watchedFormState, lastSavedData, isSaving,
                   isSaveSuccessful, retryCount, isAutoSavePaused,
                   shouldRetry, hasMounted, pending, storages>>

\* The component unmounts: the cleanup of both effects runs.
Unmount ==
    /\ lifecycle = "mounted"
    /\ lifecycle' = "unmounted"
    /\ handlers' = ClearTimeout(handlers)
    /\ retryTimers' = ClearTimeout(retryTimers)
    /\ hist' = HUnmount(hist)
    /\ UNCHANGED <<fixed, watchedFormState, lastSavedData, isSaving,
                   isSaveSuccessful, retryCount, isAutoSavePaused,
                   shouldRetry, hasMounted, pending, storages>>

Elapse(timers) == {[t EXCEPT !.rem = @ - TickMs] : t \in timers}

\* TickMs pass; no armed timer is due.
Tick ==
    /\ handlers \cup retryTimers # {}
    /\ \A t \in handlers : t.rem > 0
    /\ \A t \in retryTimers : t.rem > 0
    /\ handlers' = Elapse(handlers)
    /\ retryTimers' = Elapse(retryTimers)
    /\ hist' = HTick(hist)
    /\ UNCHANGED <<fixed, lifecycle, watchedFormState, lastSavedData, isSaving,
                   isSaveSuccessful, retryCount, isAutoSavePaused,
                   shouldRetry, hasMounted, pending, storages>>

\* Fault: restoreFormData() without the test for the api target.
restoreFormDataReadsStorage(denied) ==
    LET savedData == GetItem(IF cfg.storageType = "localStorage"
                                 THEN localStorage ELSE sessionStorage, denied)
    IN  IF savedData = Threw THEN Threw
        ELSE IF savedData # Null THEN Parse(savedData) ELSE Null

\* restoreFormData(): the value it returns, or Threw when the call throws.
restoreFormData(denied) ==
    IF cfg.storageType = "api" THEN Null
    ELSE LET savedData == GetItem(IF cfg.storageType = "localStorage"
                                      THEN localStorage ELSE sessionStorage,
                                  denied)
         IN  IF savedData = Threw THEN Threw
             ELSE IF savedData # Null THEN Parse(savedData) ELSE Null

\* The host calls restoreFormData().
Restore(denied) ==
    /\ lifecycle = "mounted"
    /\ hist' = HRestore(hist, denied, restoreFormData(denied))
    /\ UNCHANGED <<fixed, lifecycle, hookState, pending, storages>>

----------------------------------------------------------------------------
(* The state after the hook's first render, before its effects have run.   *)

\* entries are the strings the storages may hold under formKey when the
\* session starts.
InitSession(configs, envs, universes, watch, entries) ==
    /\ cfg \in configs
    /\ env \in envs
    /\ universe \in universes
    /\ lifecycle = "rendered"
    /\ watchedFormState \in universe
    /\ lastSavedData = Null
    /\ isSaving = FALSE
    /\ isSaveSuccessful = FALSE
    /\ retryCount = 0
    /\ isAutoSavePaused = FALSE
    /\ shouldRetry = FALSE
    /\ hasMounted = FALSE
    /\ handlers = {}
    /\ retryTimers = {}
    /\ pending = << >>
    /\ localStorage \in entries
    /\ sessionStorage \in entries
    /\ hist = NoHist(watch)

\* A session that starts with nothing stored under its key.
InitWith(configs, envs, universes, watch) ==
    InitSession(configs, envs, universes, watch, {Null})

----------------------------------------------------------------------------
(* Spec: a session with any backend, any host and any operation, in any    *)
(* order.                                                                  *)

Snapshots == {Null, Empty, SnapA, SnapB}

SpecConfigs ==
    {c \in Configs : /\ c.onError
                     /\ c.debounceTime = DefaultDebounceMs
                     /\ c.maxRetries <= MaxRetriesWide}

Init == InitWith(SpecConfigs, {"any"}, {Snapshots}, {})

Next ==
    \/ Mount
    \/ \E d \in universe : SnapshotChange(d)
    \/ \E t \in handlers : BeginRemoteSave(t)
    \/ \E t \in handlers : StorageSaveOk(t)
    \/ \E t \in handlers : StorageSaveThrows(t)
    \/ \E i \in DOMAIN pending : RemoteSaveResolves(i)
    \/ \E i \in DOMAIN pending : RemoteSaveRejects(i)
    \/ \E t \in retryTimers : RetryTimerFires(t)
    \/ resumeAutoSave
    \/ \E d \in universe : setLastSavedData(d)
    \/ Unmount
    \/ Tick

Spec == Init /\ [][Next]_vars

----------------------------------------------------------------------------
(* SpecRetry: a session whose snapshot never changes and whose saves all   *)
(* fail, left alone by the host.                                           *)

RetryConfigs == {c \in Configs : c.onError /\ ~c.skipInitialSave}

InitRetry == InitWith(RetryConfigs, {"fail"}, {{SnapA}}, {"count", "backoff"})

NextRetry ==
    \/ Mount
    \/ \E t \in handlers : BeginRemoteSave(t)
    \/ \E t \in handlers : StorageSaveThrows(t)
    \/ \E i \in DOMAIN pending : RemoteSaveRejects(i)
    \/ \E t \in retryTimers : RetryTimerFires(t)
    \/ Tick

SpecRetry == InitRetry /\ [][NextRetry]_vars

----------------------------------------------------------------------------
(* SpecDebounce: a session whose host only delivers snapshots.             *)

DebounceConfigs ==
    {c \in Configs : /\ c.onError
                     /\ c.debounceTime > 0
                     /\ ~c.skipInitialSave
                     /\ c.maxRetries <= 1
                     /\ c.storageType # "sessionStorage"
                     /\ c.saveFunction = (c.storageType = "api")}

InitDebounce ==
    InitWith(DebounceConfigs, {"any"},
             {{Empty, SnapA, SnapB}, {SnapAB, SnapBA}}, {"burst"})

NextDebounce ==
    \/ Mount
    \/ \E d \in universe : SnapshotChange(d)
    \/ \E t \in handlers : BeginRemoteSave(t)
    \/ \E t \in handlers : StorageSaveOk(t)
    \/ \E t \in handlers : StorageSaveThrows(t)
    \/ \E i \in DOMAIN pending : RemoteSaveResolves(i)
    \/ \E i \in DOMAIN pending : RemoteSaveRejects(i)
    \/ \E t \in retryTimers : RetryTimerFires(t)
    \/ Tick

SpecDebounce == InitDebounce /\ [][NextDebounce]_vars

----------------------------------------------------------------------------
(* SpecResume: a session whose host delivers snapshots, resumes and        *)
(* unmounts.                                                               *)

ResumeConfigs ==
    {c \in Configs : /\ c.onError
                     /\ ~c.skipInitialSave
                     /\ c.debounceTime = DefaultDebounceMs
                     /\ c.maxRetries <= MaxRetriesWide
                     /\ c.storageType # "sessionStorage"
                     /\ c.saveFunction = (c.storageType = "api")}

InitResume == InitWith(ResumeConfigs, {"any"}, {{SnapA, SnapB}}, {"resume"})

NextResume ==
    \/ Mount
    \/ \E d \in universe : SnapshotChange(d)
    \/ \E t \in handlers : BeginRemoteSave(t)
    \/ \E t \in handlers : StorageSaveOk(t)
    \/ \E t \in handlers : StorageSaveThrows(t)
    \/ \E i \in DOMAIN pending : RemoteSaveResolves(i)
    \/ \E i \in DOMAIN pending : RemoteSaveRejects(i)
    \/ \E t \in retryTimers : RetryTimerFires(t)
    \/ resumeAutoSave
    \/ Unmount
    \/ Tick

SpecResume == InitResume /\ [][NextResume]_vars

----------------------------------------------------------------------------
(* SpecRestore: a session whose saves succeed and whose host calls         *)
(* restoreFormData(); the storages may hold an entry from an earlier       *)
(* session or from other code.                                             *)

RestoreConfigs ==
    {c \in Configs : /\ c.onError
                     /\ ~c.skipInitialSave
                     /\ c.debounceTime = DefaultDebounceMs
                     /\ c.maxRetries = 0
                     /\ c.saveFunction => c.storageType = "api"}

StoredEntries == {Null, Corrupt, Stringify(SnapB)}

InitRestore ==
    InitSession(RestoreConfigs, {"ok"}, {{Null, Empty, SnapA}}, {"restore"},
                StoredEntries)

NextRestore ==
    \/ Mount
    \/ \E d \in universe : SnapshotChange(d)
    \/ \E t \in handlers : BeginRemoteSave(t)
    \/ \E t \in handlers : StorageSaveOk(t)
    \/ \E i \in DOMAIN pending : RemoteSaveResolves(i)
    \/ \E denied \in BOOLEAN : Restore(denied)
    \/ Unmount
    \/ Tick

SpecRestore == InitRestore /\ [][NextRestore]_vars

----------------------------------------------------------------------------
(* SpecOutcome: a session on either backend, with or without an onError    *)
(* callback, whose saves succeed or fail and whose host delivers           *)
(* snapshots, resumes and unmounts.                                        *)

OutcomeConfigs ==
    {c \in Configs : /\ ~c.skipInitialSave
                     /\ c.debounceTime = DefaultDebounceMs
                     /\ c.maxRetries <= 1
                     /\ c.storageType # "sessionStorage"
                     /\ c.saveFunction = (c.storageType = "api")}

InitOutcome == InitWith(OutcomeConfigs, {"any"}, {{SnapA, SnapB}}, {"outcome"})

NextOutcome ==
    \/ Mount
    \/ \E d \in universe : SnapshotChange(d)
    \/ \E t \in handlers : BeginRemoteSave(t)
    \/ \E t \in handlers : StorageSaveOk(t)
    \/ \E t \in handlers : StorageSaveThrows(t)
    \/ \E i \in DOMAIN pending : RemoteSaveResolves(i)
    \/ \E i \in DOMAIN pending : RemoteSaveRejects(i)
    \/ \E t \in retryTimers : RetryTimerFires(t)
    \/ resumeAutoSave
    \/ Unmount
    \/ Tick

SpecOutcome == InitOutcome /\ [][NextOutcome]_vars

----------------------------------------------------------------------------
(* SpecSkip: a session with or without skipInitialSave whose first         *)
(* snapshot may be null or empty, on either backend, with saves that       *)
(* succeed or fail and a host that delivers snapshots and resumes.         *)

SkipConfigs ==
    {c \in Configs : /\ c.onError
                     /\ c.debounceTime = DefaultDebounceMs
                     /\ c.maxRetries = 0
                     /\ c.storageType # "sessionStorage"
                     /\ c.saveFunction = (c.storageType = "api")}

InitSkip == InitWith(SkipConfigs, {"any"}, {Snapshots}, {"first"})

NextSkip ==
    \/ Mount
    \/ \E d \in universe : SnapshotChange(d)
    \/ \E t \in handlers : BeginRemoteSave(t)
    \/ \E t \in handlers : StorageSaveOk(t)
    \/ \E t \in handlers : StorageSaveThrows(t)
    \/ \E i \in DOMAIN pending : RemoteSaveResolves(i)
    \/ \E i \in DOMAIN pending : RemoteSaveRejects(i)
    \/ resumeAutoSave
    \/ Unmount
    \/ Tick

SpecSkip == InitSkip /\ [][NextSkip]_vars

----------------------------------------------------------------------------
(* SpecOverride: a session whose saves succeed and whose host delivers     *)
(* snapshots and calls setLastSavedData().                                 *)

OverrideConfigs ==
    {c \in Configs : /\ c.onError
                     /\ ~c.skipInitialSave
                     /\ c.debounceTime = DefaultDebounceMs
                     /\ c.maxRetries = 0
                     /\ c.storageType # "sessionStorage"
                     /\ c.saveFunction = (c.storageType = "api")}

InitOverride ==
    InitWith(OverrideConfigs, {"ok"}, {{SnapA, SnapAB, SnapBA}}, {"override"})

NextOverride ==
    \/ Mount
    \/ \E d \in universe : SnapshotChange(d)
    \/ \E t \in handlers : BeginRemoteSave(t)
    \/ \E t \in handlers : StorageSaveOk(t)
    \/ \E i \in DOMAIN pending : RemoteSaveResolves(i)
    \/ \E d \in universe : setLastSavedData(d)
    \/ Unmount
    \/ Tick

SpecOverride == InitOverride /\ [][NextOverride]_vars

----------------------------------------------------------------------------
(* SpecRoundTrip: a session on a storage backend whose writes succeed or   *)
(* throw, whose snapshots may hold a field with the value undefined, and   *)
(* whose host calls restoreFormData() and resumes.                         *)

RoundTripConfigs ==
    {c \in Configs : /\ c.onError
                     /\ ~c.skipInitialSave
                     /\ ~c.saveFunction
                     /\ c.debounceTime = DefaultDebounceMs
                     /\ c.maxRetries = 0
                     /\ c.storageType # "api"}

InitRoundTrip ==
    InitSession(RoundTripConfigs, {"any"}, {{SnapA, SnapB, SnapAU}},
                {"restore"}, {Null, Stringify(SnapB)})

NextRoundTrip ==
    \/ Mount
    \/ \E d \in universe : SnapshotChange(d)
    \/ \E t \in handlers : StorageSaveOk(t)
    \/ \E t \in handlers : StorageSaveThrows(t)
    \/ resumeAutoSave
    \/ \E denied \in BOOLEAN : Restore(denied)
    \/ Unmount
    \/ Tick

SpecRoundTrip == InitRoundTrip /\ [][NextRoundTrip]_vars

----------------------------------------------------------------------------
(* SpecInert: a session configured either with formData or with neither    *)
(* formData nor control, in which case watchedFormState is undefined in    *)
(* every render; the host re-renders, resumes and calls                    *)
(* setLastSavedData().                                                     *)

InitInert == InitWith(SkipConfigs, {"any"}, {{Null}, {Null, SnapA}}, {"first"})

NextInert ==
    \/ NextSkip
    \/ \E d \in universe : setLastSavedData(d)

SpecInert == InitInert /\ [][NextInert]_vars

----------------------------------------------------------------------------
(* SpecGate: a session with or without skipInitialSave, with a retry       *)
(* budget of at most one, whose host delivers snapshots of every kind and  *)
(* resumes.                                                                *)

GateConfigs ==
    {c \in Configs : /\ c.onError
                     /\ c.debounceTime = DefaultDebounceMs
                     /\ c.maxRetries <= 1
                     /\ c.storageType # "sessionStorage"
                     /\ c.saveFunction = (c.storageType = "api")}

InitGate == InitWith(GateConfigs, {"any"}, {Snapshots}, {"gate"})

NextGate ==
    \/ Mount
    \/ \E d \in universe : SnapshotChange(d)
    \/ \E t \in handlers : BeginRemoteSave(t)
    \/ \E t \in handlers : StorageSaveOk(t)
    \/ \E t \in handlers : StorageSaveThrows(t)
    \/ \E i \in DOMAIN pending : RemoteSaveResolves(i)
    \/ \E i \in DOMAIN pending : RemoteSaveRejects(i)
    \/ \E t \in retryTimers : RetryTimerFires(t)
    \/ resumeAutoSave
    \/ Tick

SpecGate == InitGate /\ [][NextGate]_vars

----------------------------------------------------------------------------
(* SpecCeiling: a session with a retry budget of up to MaxRetriesCeiling   *)
(* on either backend, whose saves succeed or fail and whose host delivers  *)
(* snapshots and resumes.                                                  *)

CeilingConfigs ==
    {c \in Configs : /\ c.onError
                     /\ ~c.skipInitialSave
                     /\ c.debounceTime = DefaultDebounceMs
                     /\ c.maxRetries <= MaxRetriesCeiling
                     /\ c.storageType # "sessionStorage"
                     /\ c.saveFunction = (c.storageType = "api")}

InitCeiling == InitWith(CeilingConfigs, {"any"}, {{SnapA, SnapB}}, {"retry"})

NextCeiling ==
    \/ Mount
    \/ \E d \in universe : SnapshotChange(d)
    \/ \E t \in handlers : BeginRemoteSave(t)
    \/ \E t \in handlers : StorageSaveOk(t)
    \/ \E t \in handlers : StorageSaveThrows(t)
    \/ \E i \in DOMAIN pending : RemoteSaveResolves(i)
    \/ \E i \in DOMAIN pending : RemoteSaveRejects(i)
    \/ \E t \in retryTimers : RetryTimerFires(t)
    \/ resumeAutoSave
    \/ Tick

SpecCeiling == InitCeiling /\ [][NextCeiling]_vars

----------------------------------------------------------------------------
(* SpecStall: a session with or without skipInitialSave whose host         *)
(* delivers snapshots of every kind and never resumes or unmounts.         *)

InitStall == InitWith(GateConfigs, {"any"}, {Snapshots}, {"suppress"})

SpecStall == InitStall /\ [][NextDebounce]_vars

----------------------------------------------------------------------------
(* SpecForget: a session that is never unmounted, whose saves succeed or   *)
(* fail and whose host delivers snapshots and resumes when it likes.  The  *)
(* event loop is fair: time passes, a timer that is due fires, and a       *)
(* remote save in flight completes.                                        *)

ForgetConfigs ==
    {c \in Configs : /\ c.onError
                     /\ ~c.skipInitialSave
                     /\ c.debounceTime = DefaultDebounceMs
                     /\ c.maxRetries <= 1
                     /\ c.storageType # "sessionStorage"
                     /\ c.saveFunction = (c.storageType = "api")}

InitForget == InitWith(ForgetConfigs, {"any"}, {{SnapA, SnapB}}, {"owed"})

\* A debounce timer that is due fires.
DebounceFires ==
    \E t \in handlers : \/ BeginRemoteSave(t)
                        \/ StorageSaveOk(t)
                        \/ StorageSaveThrows(t)

\* A remote save in flight completes.
RemoteSaveCompletes ==
    \E i \in DOMAIN pending : RemoteSaveResolves(i) \/ RemoteSaveRejects(i)

\* A retry timer that is due fires.
RetryFiresDue == \E t \in retryTimers : RetryTimerFires(t)

NextForget ==
    \/ Mount
    \/ \E d \in universe : SnapshotChange(d)
    \/ DebounceFires
    \/ RemoteSaveCompletes
    \/ RetryFiresDue
    \/ resumeAutoSave
    \/ Tick

FairLoop ==
    /\ WF_vars(Mount)
    /\ WF_vars(Tick)
    /\ WF_vars(DebounceFires)
    /\ WF_vars(RemoteSaveCompletes)
    /\ WF_vars(RetryFiresDue)

SpecForget == InitForget /\ [][NextForget]_vars /\ FairLoop

----------------------------------------------------------------------------
(* SpecConverge: a session that is never unmounted and whose saves all     *)
(* succeed, with or without skipInitialSave, on either backend, under a    *)
(* fair event loop; the host delivers snapshots of every kind, as long as  *)
(* it likes.                                                               *)

ConvergeConfigs ==
    {c \in Configs : /\ c.onError
                     /\ c.debounceTime = DefaultDebounceMs
                     /\ c.maxRetries = 0
                     /\ c.storageType # "sessionStorage"
                     /\ c.saveFunction = (c.storageType = "api")}

InitConverge ==
    InitWith(ConvergeConfigs, {"ok"}, {Snapshots, {SnapA, SnapAB, SnapBA}},
             {"first", "suppress", "order"})

NextConverge ==
    \/ Mount
    \/ \E d \in universe : SnapshotChange(d)
    \/ \E t \in handlers : BeginRemoteSave(t)
    \/ \E t \in handlers : StorageSaveOk(t)
    \/ \E i \in DOMAIN pending : RemoteSaveResolves(i)
    \/ Tick

SpecConverge == InitConverge /\ [][NextConverge]_vars /\ FairLoop

----------------------------------------------------------------------------
(* The claims. *)

\* C1 (debounce collapsing): in a sequence of snapshot changes, each
\* delivered while the debounce timer of the one before is still armed, an
\* armed timer and every attempt begun carry the last snapshot of the
\* sequence, and after the last change exactly one save attempt begins
\* (beyond the retries of attempts that failed).
DebounceCollapsing ==
    /\ \A t \in handlers : t.data = watchedFormState
    /\ hist.burst >= 1 => hist.lastArg = watchedFormState
    /\ hist.burst <= 1 + hist.burstFails

\* C2 (bounded retry then pause): with saves that always fail, a snapshot
\* that does not change and no resume, at most maxRetries + 1 attempts begin,
\* onError is called once per completed attempt, the session is paused exactly
\* when maxRetries + 1 failures have been reported, nothing is armed or in
\* flight once it is paused, and it does not stop before it is paused.
BoundedRetryThenPause ==
    /\ hist.attempts <= cfg.maxRetries + 1
    /\ hist.errors = hist.attempts - Len(pending)
    /\ isAutoSavePaused <=> hist.errors = cfg.maxRetries + 1
    /\ isAutoSavePaused => /\ handlers = {}
                           /\ retryTimers = {}
                           /\ pending = << >>
                           /\ hist.attempts = cfg.maxRetries + 1
    /\ isAutoSavePaused \/ ENABLED NextRetry

\* C2: a session with maxRetries = 3 has paused after 1 + 3 failed attempts.
PausedAfterAllRetries ==
    /\ isAutoSavePaused
    /\ cfg.maxRetries = 3
    /\ hist.attempts = 4
    /\ hist.errors = 4

\* C3 as stated (backoff delays): the time between the k-th failed attempt
\* and the start of the next attempt is exactly 2^k * 1000 ms, whatever
\* debounceTime is.
BackoffDelaysExact ==
    hist.gap # NoTime => hist.gap = Pow2(hist.gapRc) * BaseDelayMs

\* C3 as amended: the retry timer fires exactly 2^k * 1000 ms after the k-th
\* failed attempt, and the next attempt begins debounceTime after that, that
\* is 2^k * 1000 + debounceTime ms after the failure.
BackoffDelaysThenDebounce ==
    /\ hist.gap # NoTime => hist.gap = Pow2(hist.gapRc) * BaseDelayMs + cfg.debounceTime
    /\ hist.sinceFail # NoTime =>
          /\ hist.failRc = hist.errors - 1
          /\ \A t \in retryTimers :
                 t.rem + hist.sinceFail = Pow2(hist.failRc) * BaseDelayMs
          /\ \A t \in handlers :
                 t.rem + hist.sinceFail =
                     Pow2(hist.failRc) * BaseDelayMs + cfg.debounceTime

\* C3: the attempt after the third failure (k = 2) has begun, with a
\* debounceTime above zero.
ThirdRetryBegan ==
    /\ cfg.debounceTime > 0
    /\ hist.gapRc = 2
    /\ hist.gap = Pow2(2) * BaseDelayMs + cfg.debounceTime

\* C4 (no saving while paused): in every state in which the session is
\* paused, no debounce timer and no retry timer is armed.
NoTimersWhilePaused ==
    isAutoSavePaused => handlers = {} /\ retryTimers = {}

\* C5 as stated (resume produces no save by itself): after a resume from
\* pause, as long as the snapshot does not change, no save attempt begins.
ResumeStartsNoSave ==
    [][hist.afterResume => hist'.beat = hist.beat]_vars

\* C5 as amended: the step that resumes a paused session begins no save
\* attempt and resets retryCount, and it arms the debounce timer for the
\* current snapshot when that snapshot passes the Change Gate; as long as the
\* snapshot does not change, an armed timer carries that snapshot.
ResumeRearmsDebounce ==
    /\ [][(isAutoSavePaused /\ ~isAutoSavePaused') =>
            /\ hist'.beat = hist.beat
            /\ retryCount' = 0
            /\ handlers' =
                 IF ChangeGate(watchedFormState, lastSavedData, FALSE,
                               hasMounted).arm
                     THEN {Handler(watchedFormState, 0, cfg.debounceTime)}
                     ELSE {}]_vars
    /\ [](hist.afterResume => \A t \in handlers : t.data = watchedFormState)

\* C5: a paused session was resumed, its snapshot has not changed since, and
\* a debounce timer is armed.
ResumedWithTimerArmed ==
    /\ hist.afterResume
    /\ handlers # {}
    /\ ~isAutoSavePaused

IdempotentSkip ==
    \A t \in handlers : ~(lastSavedData # Null /\ DeepEqual(t.data, lastSavedData))

\* C8 (teardown cancels the debounce): after the unmount no debounce timer
\* is armed, no save attempt begins and the backing store does not change.
TeardownCancelsDebounce ==
    /\ [](lifecycle = "unmounted" => handlers = {})
    /\ [][lifecycle = "unmounted" =>
            hist'.beat = hist.beat /\ storages' = storages]_vars

\* C8: the session was unmounted while a debounce timer was armed.
TornDownWithDebounceArmed ==
    lifecycle = "unmounted" /\ "debounce" \in hist.torn

\* C9 (teardown cancels both timer kinds): after the unmount neither a
\* debounce timer nor a retry timer is armed, no save attempt begins and no
\* retry callback changes retryCount or shouldRetry.
TeardownCancelsBothTimers ==
    /\ [](lifecycle = "unmounted" => handlers = {} /\ retryTimers = {})
    /\ [][lifecycle = "unmounted" =>
            /\ hist'.beat = hist.beat
            /\ retryCount' = retryCount
            /\ shouldRetry' = shouldRetry]_vars

\* C9: the session was unmounted while a retry timer was armed after a
\* failed save.
TornDownWithRetryArmed ==
    lifecycle = "unmounted" /\ "retry" \in hist.torn

\* C10 (remote target without a save function): with storageType "api" and
\* no saveFunction, nothing is written to localStorage or sessionStorage
\* and isSaveSuccessful stays false.
RemoteWithoutSaveFunctionNoOp ==
    (cfg.storageType = "api" /\ ~cfg.saveFunction) =>
        /\ localStorage = Null
        /\ sessionStorage = Null
        /\ ~isSaveSuccessful

\* C11 (restore never throws): no call of restoreFormData() throws, also
\* when reading the storage fails and when the stored string is not JSON.
RestoreNeverThrows ==
    hist.restored # Threw

\* C12 (restore with the api target): a call of restoreFormData() in a
\* session with storageType "api" returns null whatever the two storages
\* hold, and changes nothing of the session or the storages.
RestoreApiReturnsNull ==
    [][(hist'.asked # hist.asked /\ cfg.storageType = "api") =>
          /\ hist'.restored = Null
          /\ UNCHANGED <<hookState, pending, storages, lifecycle>>]_vars

\* C12: restoreFormData() was called in an api session whose storages both
\* hold an entry from before the session, and it returned null.
RestoredNothingFromApi ==
    /\ cfg.storageType = "api"
    /\ hist.asked
    /\ hist.restored = Null
    /\ sessionStorage = Stringify(SnapB)
    /\ localStorage = Corrupt

\* A step in which a save attempt completes.
Completes == hist'.completed # hist.completed

\* C13 (success postcondition): when a save attempt for snapshot S completes
\* successfully in a mounted session, then in the resulting state
\* lastSavedData = S, retryCount = 0, isSaveSuccessful = true, shouldRetry is
\* false and no retry timer is armed, and isAutoSavePaused is unchanged.
SuccessPostcondition ==
    [][(Completes /\ hist'.outcome = "ok" /\ lifecycle = "mounted") =>
          /\ lastSavedData' = hist'.subject
          /\ retryCount' = 0
          /\ isSaveSuccessful'
          /\ ~shouldRetry'
          /\ retryTimers' = {}
          /\ isAutoSavePaused' = isAutoSavePaused]_vars

\* C13: a save succeeded in a session that an earlier failure had paused,
\* and the session is still paused.
SucceededAfterRetry ==
    /\ hist.outcome = "ok"
    /\ lastSavedData = hist.subject
    /\ isSaveSuccessful
    /\ retryCount = 0
    /\ isAutoSavePaused
    /\ lifecycle = "mounted"

\* C14 (a failed save leaves lastSavedData unchanged): the step in which a
\* save attempt fails does not change lastSavedData; and when the snapshot
\* of the attempt that failed last is delivered again while the session is
\* not paused and lastSavedData does not hold that snapshot, the debounce
\* timer is armed for it.
FailureKeepsLastSaved ==
    /\ [][(Completes /\ hist'.outcome = "fail") =>
             lastSavedData' = lastSavedData]_vars
    /\ [][(/\ hist'.delivered # hist.delivered
           /\ hist.outcome = "fail"
           /\ watchedFormState' = hist.subject
           /\ ~isAutoSavePaused
           /\ ~Unchanged(lastSavedData, hist.subject)) =>
             \E t \in handlers' : /\ t.data = hist.subject
                                  /\ t.rem = cfg.debounceTime]_vars

\* C14: the save of the current snapshot failed after an earlier snapshot had
\* been saved, and the debounce timer is armed for it again.
FailedSnapshotArmedAgain ==
    /\ hist.outcome = "fail"
    /\ hist.subject = watchedFormState
    /\ lastSavedData \notin {Null, watchedFormState}
    /\ ~isAutoSavePaused
    /\ \E t \in handlers : t.data = hist.subject /\ t.rem = cfg.debounceTime

CompletionClearsSaving ==
    [][/\ (Completes /\ lifecycle = "mounted") => ~isSaving'
       /\ (Completes /\ hist'.outcome = "fail"
              /\ retryCount < cfg.maxRetries) =>
            isAutoSavePaused' = isAutoSavePaused]_vars

\* C17 (a storage write that throws is handled as a remote rejection): the
\* step in which a save attempt fails has the same effect on either backend:
\* lastSavedData and retryCount are unchanged, isSaving is false,
\* isSaveSuccessful is false unless another attempt succeeded since the last
\* one began, onError is called once when configured, and the attempt's
\* retryCount decides between shouldRetry and isAutoSavePaused.
FailureHandledAlike ==
    [][(Completes /\ hist'.outcome = "fail" /\ lifecycle = "mounted") =>
          /\ lastSavedData' = lastSavedData
          /\ retryCount' = retryCount
          /\ ~isSaving'
          /\ hist'.okSince \/ ~isSaveSuccessful'
          /\ hist'.reported = (IF cfg.onError THEN 1 ELSE 0)
          /\ IF hist'.subjectRc < cfg.maxRetries
                 THEN shouldRetry' /\ isAutoSavePaused' = isAutoSavePaused
                 ELSE isAutoSavePaused' /\ shouldRetry' = shouldRetry]_vars

\* C17: a storage write threw in a session that still had a retry left, and
\* the retry is pending.
StorageFailureRetries ==
    /\ cfg.storageType = "localStorage"
    /\ cfg.maxRetries = 1
    /\ hist.outcome = "fail"
    /\ hist.subjectRc = 0
    /\ shouldRetry
    /\ retryTimers # {}
    /\ ~isAutoSavePaused

\* The snapshots the Change Gate treats as no data.
NoData == {Null, Empty}

\* A step that begins no save attempt and writes to no storage.
SavesNothing == UNCHANGED storages /\ Len(pending') <= Len(pending)

\* A call of restoreFormData() that could read the storage, on a key that
\* holds no entry.
RestoresAbsentKey ==
    /\ hist'.asked # hist.asked
    /\ ~hist'.denied
    /\ \/ cfg.storageType = "localStorage" /\ localStorage = Null
       \/ cfg.storageType = "sessionStorage" /\ sessionStorage = Null

\* C18 (empty or absent data is a no-op): while the observed snapshot is
\* null or has no fields no debounce timer is armed, no save attempt begins
\* and nothing is written to a storage; no timer and no attempt ever carries
\* such a snapshot; and restoreFormData() on a key that holds no entry,
\* when the storage can be read, returns null.
EmptyDataIsNoOp ==
    /\ [](watchedFormState \in NoData => handlers = {})
    /\ [](\A t \in handlers : t.data \notin NoData)
    /\ [](\A i \in DOMAIN pending : pending[i].data \notin NoData)
    /\ [][(watchedFormState \in NoData) => SavesNothing]_vars
    /\ [][RestoresAbsentKey => hist'.restored = Null]_vars

\* C18: a mounted session observes an empty snapshot, its key holds no
\* entry, and restoreFormData() returned null.
EmptyKeyRestoredNull ==
    /\ cfg.storageType = "localStorage"
    /\ lifecycle = "mounted"
    /\ watchedFormState = Empty
    /\ localStorage = Null
    /\ hist.asked
    /\ ~hist.denied
    /\ hist.restored = Null

\* A step that delivers a snapshot: the mount, or a later render.
Delivers == hist'.delivered # hist.delivered

\* The delivered snapshot passes the conditions of the Change Gate other
\* than the first-observation one.
GateOpen ==
    /\ watchedFormState' \notin NoData
    /\ cfg.formKey # ""
    /\ ~isAutoSavePaused
    /\ ~Unchanged(lastSavedData, watchedFormState')

\* The debounce timer is armed for the delivered snapshot.
ArmsDebounce ==
    \E t \in handlers' : /\ t.data = watchedFormState'
                         /\ t.rem = cfg.debounceTime
                         /\ t.own

\* C19 (skip initial save): with skipInitialSave, as long as only the first
\* snapshot has been observed no debounce timer is armed and no save attempt
\* has begun; every snapshot delivered after the first that passes the gate
\* arms the debounce timer with debounceTime; and without skipInitialSave
\* every delivered snapshot that passes the gate does, the first included.
SkipInitialSaveOnly ==
    /\ []((cfg.skipInitialSave /\ hist.observed = 1) =>
             (handlers = {} /\ ~hist.began))
    /\ [][(Delivers /\ GateOpen /\ hist.observed >= 1) => ArmsDebounce]_vars
    /\ [][(Delivers /\ GateOpen /\ ~cfg.skipInitialSave) => ArmsDebounce]_vars

\* C20 (the first-observation marker is consumed by the first snapshot):
\* with skipInitialSave, a snapshot delivered after a first snapshot that was
\* null or empty is not suppressed as the first one: when it passes the
\* other conditions of the gate the debounce timer is armed for it.
FirstMarkerConsumedByFirst ==
    [][(/\ Delivers
        /\ cfg.skipInitialSave
        /\ hist.observed >= 1
        /\ GateOpen) => ArmsDebounce]_vars

\* A step in which the host calls setLastSavedData().
Overrides == hist'.overridden # hist.overridden

\* A step in which a save attempt begins.
Begins == hist'.beat # hist.beat

\* C21 (setLastSavedData performs no save): a call setLastSavedData(X) sets
\* lastSavedData to X, changes no other state of the hook, starts no save,
\* writes to no storage and arms no debounce timer.
OverridePerformsNoSave ==
    [][Overrides =>
          /\ lastSavedData' = hist'.arg
          /\ UNCHANGED <<watchedFormState, isSaving, isSaveSuccessful,
                         retryCount, isAutoSavePaused, shouldRetry,
                         retryTimers, pending, storages>>
          /\ hist'.beat = hist.beat
          /\ handlers' \subseteq handlers]_vars

\* C22 (the override avoids the redundant re-save): after a call
\* setLastSavedData(S) made while the current snapshot is structurally equal
\* to S, no save attempt begins until a snapshot is delivered.
OverrideAvoidsResave ==
    [][(hist.settled /\ lifecycle = "mounted") => ~Begins]_vars

\* C23 (timer uniqueness): in every state at most one debounce timer and at
\* most one retry timer is armed, and an armed timer is the one the cleanup
\* of its effect refers to, so that the next run of the effect cancels it
\* before it arms another.
TimerUniqueness ==
    /\ Cardinality(handlers) <= 1
    /\ Cardinality(retryTimers) <= 1
    /\ \A t \in handlers \cup retryTimers : t.own

\* C23: a debounce timer and a retry timer are armed at the same time, one
\* of each.
BothTimersArmed ==
    /\ Cardinality(handlers) = 1
    /\ Cardinality(retryTimers) = 1
    /\ shouldRetry
    /\ lifecycle = "mounted"

\* A step in which the host calls restoreFormData().
Restores == hist'.asked # hist.asked

\* C24 (round trip): on a storage backend, once a save of a snapshot S has
\* succeeded, restoreFormData() returns a value structurally equal to the
\* snapshot of the last save that succeeded.
RoundTrip ==
    [][(Restores /\ hist.saved # Null) =>
          DeepEqual(hist'.restored, hist.saved)]_vars

\* C25 (status on entry): the step in which a remote save attempt begins
\* leaves isSaving = true and isSaveSuccessful = false, also when
\* isSaveSuccessful was true before; and as long as no save attempt has
\* completed since the last one began, isSaving = true and
\* isSaveSuccessful = false.
StatusOnEntry ==
    /\ [][(Begins /\ Remote) => (isSaving' /\ ~isSaveSuccessful')]_vars
    /\ []((hist.fresh /\ pending # << >>) =>
             (isSaving /\ ~isSaveSuccessful))

\* C25: a remote save is pending that began after an earlier save had
\* succeeded, and nothing has completed since.
PendingAfterSuccess ==
    /\ hist.fresh
    /\ pending # << >>
    /\ hist.outcome = "ok"
    /\ lastSavedData # Null
    /\ isSaving
    /\ ~isSaveSuccessful

\* C26 (isSaveSuccessful reports the last save): in every state of a mounted
\* session in which no save attempt is in flight and one has completed,
\* isSaveSuccessful is true exactly when the attempt that completed last
\* succeeded.
LastSaveReported ==
    (lifecycle = "mounted" /\ pending = << >> /\ hist.outcome # "none") =>
        (isSaveSuccessful <=> hist.outcome = "ok")

\* C27 (a session with neither formData nor control is inert): in such a
\* session no debounce or retry timer is ever armed, no save attempt begins,
\* nothing is written to a storage and the status values keep their initial
\* values.
Inert ==
    universe = {Null} =>
        /\ handlers = {}
        /\ retryTimers = {}
        /\ pending = << >>
        /\ ~hist.began
        /\ localStorage = Null
        /\ sessionStorage = Null
        /\ ~isSaving
        /\ ~isSaveSuccessful
        /\ ~isAutoSavePaused

\* C27: a session with neither formData nor control was mounted and rendered
\* again, and nothing began.
InertAfterRenders ==
    /\ universe = {Null}
    /\ lifecycle = "mounted"
    /\ hist.observed = 2
    /\ lastSavedData = Null
    /\ ~hasMounted
    /\ ~hist.began

\* C29 (a retry saves the current snapshot): when a save attempt begins
\* after the retry timer has fired, the last failure was for a snapshot S1
\* and the current snapshot is another one, the attempt is made with the
\* current snapshot and not with S1.
RetrySavesCurrent ==
    [][(/\ Begins
        /\ hist.outcome = "fail"
        /\ retryCount > 0
        /\ hist.subject # watchedFormState) =>
          /\ hist'.begun = watchedFormState
          /\ hist'.begun # hist.subject]_vars

\* C29: the save of one snapshot failed, the snapshot changed, and the
\* attempt that follows the retry is pending with the new snapshot.
RetriedWithNewSnapshot ==
    /\ hist.outcome = "fail"
    /\ hist.subject = SnapA
    /\ hist.fresh
    /\ Len(pending) = 1
    /\ pending[1] = [data |-> SnapB, rc |-> 1]
    /\ hist.begun = SnapB
    /\ watchedFormState = SnapB

\* C30 (an attempt is made with the snapshot captured at arm time, which is
\* the current one): every save attempt begins with the snapshot of the
\* debounce timer that fired, and that snapshot is the current snapshot.
AttemptUsesArmedSnapshot ==
    [][Begins =>
          /\ \E t \in handlers : /\ t.rem = 0
                                 /\ t \notin handlers'
                                 /\ t.data = hist'.begun
          /\ hist'.begun = watchedFormState
          /\ watchedFormState' = watchedFormState]_vars

\* C30: a save attempt is pending with the current snapshot after an earlier
\* snapshot had been saved.
PendingWithCurrentSnapshot ==
    /\ hist.fresh
    /\ pending # << >>
    /\ hist.begun = watchedFormState
    /\ lastSavedData \notin {Null, watchedFormState}

\* C31 (no concurrent second save): in every state at most one save attempt
\* is in flight, begun and not yet completed.
NoConcurrentSave ==
    Len(pending) <= 1

\* A step that delivers a snapshot the Change Gate rejects: the snapshot is
\* null or empty, the session is paused, the snapshot is structurally the
\* one in lastSavedData, or it is suppressed as the first observation.
RejectedChange ==
    /\ Delivers
    /\ ~GateOpen \/ (cfg.skipInitialSave /\ ~hasMounted)

\* C32 as stated (a rejected snapshot change has no side effect): a snapshot
\* change that the Change Gate rejects changes none of lastSavedData,
\* retryCount, isAutoSavePaused, isSaving and isSaveSuccessful, and it neither
\* arms nor cancels a debounce or a retry timer.
RejectedChangeHasNoEffect ==
    [][RejectedChange =>
          UNCHANGED <<lastSavedData, retryCount, isAutoSavePaused, isSaving,
                      isSaveSuccessful, handlers, retryTimers>>]_vars

\* C32 as amended: a snapshot change that the Change Gate rejects changes none
\* of lastSavedData, retryCount, isAutoSavePaused, shouldRetry, isSaving and
\* isSaveSuccessful, begins no save attempt, writes to no storage and neither
\* arms nor cancels a retry timer; it arms no debounce timer and cancels the
\* one that was armed for the snapshot before.
RejectedChangeCancelsDebounce ==
    [][RejectedChange =>
          /\ UNCHANGED <<lastSavedData, retryCount, isAutoSavePaused,
                         shouldRetry, isSaving, isSaveSuccessful, retryTimers,
                         pending, storages>>
          /\ ~Begins
          /\ handlers' = {}]_vars

\* C32: a rejected snapshot was delivered while the debounce timer of the
\* one before was armed and a retry timer was armed too; the retry timer is
\* still armed.
RejectedWhileArmed ==
    /\ hist.dropped
    /\ handlers = {}
    /\ retryTimers # {}
    /\ shouldRetry
    /\ watchedFormState = Empty

\* C33 (a failure leads to exactly one of retry and pause): when a save
\* attempt fails while retryCount < maxRetries, afterwards exactly one retry
\* timer is armed and the session is not paused; when it fails otherwise, the
\* session is paused and no retry timer is armed.
FailureRetriesOrPauses ==
    [][(Completes /\ hist'.outcome = "fail" /\ lifecycle = "mounted") =>
          IF retryCount < cfg.maxRetries
              THEN Cardinality(retryTimers') = 1 /\ ~isAutoSavePaused'
              ELSE isAutoSavePaused' /\ retryTimers' = {}]_vars

\* C34 (paused only at the retry ceiling): in every state in which the
\* session is paused, retryCount >= maxRetries.
PausedOnlyAtCeiling ==
    isAutoSavePaused => retryCount >= cfg.maxRetries

\* A step in which a retry timer fires.
RetryFires == hist'.fired # hist.fired

\* C35 (retryCount stays within the budget): in every state
\* 0 <= retryCount <= maxRetries, and the step in which a retry timer fires
\* raises retryCount by exactly one.
RetryCountWithinBudget ==
    /\ [](0 <= retryCount /\ retryCount <= cfg.maxRetries)
    /\ [][RetryFires => retryCount' = retryCount + 1]_vars

\* C35: a session with a budget of two retries has used both, a retry timer
\* having fired, and is paused at the ceiling.
PausedAtCeiling ==
    /\ cfg.maxRetries = 2
    /\ retryCount = 2
    /\ isAutoSavePaused
    /\ retryTimers = {}

\* C36 (isSaving mirrors the work in flight): in every state of a mounted
\* session isSaving is true exactly when a save attempt has begun and not
\* yet completed.
SavingMirrorsInFlight ==
    lifecycle = "mounted" => (isSaving <=> pending # << >>)

\* The current snapshot is one the session owes a save for: it is present
\* and not empty, not structurally the one in lastSavedData, and not the
\* snapshot that skipInitialSave suppressed.
OwesSave ==
    /\ lifecycle = "mounted"
    /\ ~isAutoSavePaused
    /\ watchedFormState \notin NoData
    /\ ~(lastSavedData # Null /\ DeepEqual(lastSavedData, watchedFormState))
    /\ ~hist.suppressed

\* C37 (auto-save does not stall silently): in every state of a mounted
\* session that was never resumed, when the session owes a save for the
\* current snapshot, a debounce timer is armed, or a retry timer is armed, or
\* a save attempt is in flight.
NoSilentStall ==
    OwesSave => handlers # {} \/ retryTimers # {} \/ pending # << >>

\* C38 (no failed snapshot is forgotten): under a fair event loop and
\* without unmount, whenever a save attempt for the current snapshot has
\* failed, eventually a save of that snapshot succeeds, or a newer snapshot is
\* delivered, or the session is paused.
FailedSnapshotNotForgotten ==
    (hist.owed # Null) ~> (hist.owed = Null \/ isAutoSavePaused)

\* The current snapshot is one the session has to save: it is present and
\* not empty, and it is not the snapshot that skipInitialSave suppressed.
HasToSave ==
    /\ watchedFormState \notin NoData
    /\ ~hist.suppressed

\* The current snapshot is saved and the session is at rest.
Converged ==
    /\ lastSavedData = watchedFormState
    /\ ~isSaving
    /\ isSaveSuccessful
    /\ handlers = {}
    /\ pending = << >>

====
